---------------------------- MODULE Spec2Model ----------------------------
(***************************************************************************)
(* Model of gpt_oss_120b_server.py: the module-level loader (tokenizer and *)
(* model), the generate function and the Gradio wiring that serves it.     *)
(*                                                                         *)
(* Text is a sequence of characters; the literal text of the end-of-       *)
(* sequence token is one element of it.  Token ids are integers.  The      *)
(* network's weights are stood for by Ranking (the order of the next-token *)
(* candidates given the context) and Weights (their probabilities, in      *)
(* percent, at a temperature).                                             *)
(***************************************************************************)
EXTENDS Integers, Sequences, FiniteSets, TLC

VARIABLES
    pc,          \* position of the module-level script
    tokenizer,   \* the tokenizer handle (module global, line 19)
    model,       \* the model handle (module global, line 27)
    loadCalls,   \* how many times each from_pretrained has been invoked
    loadFailed,  \* the failure raised by a loader, "none" if none was
    call,        \* per call slot: the frame of a generate call
    delivered,   \* per call slot: what the caller has received for the call
    everFailed   \* a generate call has failed since launch

vars == <<pc, tokenizer, model, loadCalls, loadFailed, call, delivered, everFailed>>

---------------------------------------------------------------------------
(* Bounds of the model *)

\* longest prompt, in characters
MaxPromptLen == 2

\* largest max_new_tokens passed to generate; it also stands for the
\* default of 256 (line 37), which the served calls use
MaxNewTokens == 2

\* generate calls that may be in flight together
Calls == {1, 2}

---------------------------------------------------------------------------
(* Tokenizer *)

\* the text of the end-of-sequence token, one element of a text
EosText == "<|return|>"

\* tokenizer.eos_token_id
eos_token_id == 0

Chars == {"a", "b", EosText}

\* characters the prompts are drawn from
PromptChars == {"a", EosText}

TokenId(ch) ==
    CASE ch = "a" -> 1
      [] ch = "b" -> 2
      [] ch = EosText -> eos_token_id

TokenText(id) ==
    CASE id = 1 -> "a"
      [] id = 2 -> "b"
      [] id = eos_token_id -> EosText

SpecialTokens == {eos_token_id}

\* tokenizer(prompt).input_ids: special-token text in the prompt becomes
\* the special token
Encode(text) == [i \in 1..Len(text) |-> TokenId(text[i])]

IsOrdinary(id) == id \notin SpecialTokens

\* tokenizer.decode(ids, skip_special_tokens=True)
Decode(ids) ==
    LET kept == SelectSeq(ids, IsOrdinary)
    IN  [i \in 1..Len(kept) |-> TokenText(kept[i])]

RECURSIVE TextsUpTo(_)
TextsUpTo(n) ==
    IF n = 0 THEN {<<>>}
    ELSE LET shorter == TextsUpTo(n - 1)
         IN  shorter \cup {Append(t, ch) : t \in shorter, ch \in PromptChars}

Prompts == TextsUpTo(MaxPromptLen)

\* prior turns the chat UI passes along, each a text
Histories == {<<>>, << <<"b">> >>}

---------------------------------------------------------------------------
(* Sampling *)

\* temperature in hundredths, top_p in percent
DefaultTemperature == 70
DefaultTopP == 90
DefaultMaxNewTokens == MaxNewTokens

Temperatures == {1, DefaultTemperature}
TopPs == {DefaultTopP, 100}
MaxNewTokensArgs == 0..MaxNewTokens

\* the candidates for the next token, most likely first, given the context
Ranking(ids) ==
    IF ids = <<>> THEN <<1, 2, eos_token_id>>
    ELSE CASE ids[Len(ids)] = 1 -> <<2, eos_token_id, 1>>
           [] ids[Len(ids)] = 2 -> <<eos_token_id, 1, 2>>
           [] OTHER -> <<1, eos_token_id, 2>>

\* the probabilities of the ranked candidates, in percent
Weights(temperature) ==
    IF temperature <= 10 THEN <<100, 0, 0>> ELSE <<60, 30, 10>>

RECURSIVE Cumulative(_, _)
Cumulative(w, k) == IF k = 0 THEN 0 ELSE w[k] + Cumulative(w, k - 1)

\* top-p filter: the smallest prefix of the ranking whose probability
\* reaches top_p
Nucleus(ids, temperature, top_p) ==
    LET w == Weights(temperature)
        k == CHOOSE n \in 1..Len(w) :
                /\ Cumulative(w, n) >= top_p
                /\ \A m \in 1..(n - 1) : Cumulative(w, m) < top_p
    IN  {Ranking(ids)[i] : i \in 1..k}


StoppingCriteriaOffByOne(inputs, ids, max_new_tokens) ==
    \/ ids[Len(ids)] = eos_token_id
    \/ Len(ids) > Len(inputs) + max_new_tokens

StoppingCriteriaIgnoresEos(inputs, ids, max_new_tokens) ==
    Len(ids) >= Len(inputs) + max_new_tokens

\* generate's stopping criteria, evaluated after a token is appended:
\* the token is the end-of-sequence token, or the length bound is reached
StoppingCriteria(inputs, ids, max_new_tokens) ==
    \/ ids[Len(ids)] = eos_token_id
    \/ Len(ids) >= Len(inputs) + max_new_tokens

GenInputsWithHistory(prompt, history) ==
    Encode(IF history = <<>> THEN prompt ELSE history[1] \o prompt)

\* the token sequence given to the model: the encoded prompt alone
GenInputs(prompt, history) == Encode(prompt)

---------------------------------------------------------------------------
(* Module-level script: loader, wiring, launch *)

Steps == <<"load_tokenizer", "load_model", "eval", "blocks", "queue", "launch", "serving">>

StepIndex(p) == CHOOSE i \in 1..Len(Steps) : Steps[i] = p

\* the service launched before the model is loaded
NextPcLaunchFirst(p) ==
    CASE p = "load_tokenizer" -> "blocks"
      [] p = "launch" -> "serving"
      [] OTHER -> Steps[StepIndex(p) + 1]

\* the statement after p, in source order
NextPc(p) == Steps[StepIndex(p) + 1]

\* the exception swallowed and the script carried on
OnLoadFailureContinue(p) == Steps[StepIndex(p) + 1]

\* an exception raised at module level ends the process
OnLoadFailure(p) == "crashed"

LoadFailures == {"io", "authorization", "out_of_memory"}

NoTokenizer == [loaded |-> FALSE, use_fast |-> FALSE]
NoModel ==
    [loaded |-> FALSE, training |-> TRUE,
     generation_config |-> [temperature |-> 100, top_p |-> 100]]

IdleCall ==
    [phase |-> "idle", prompt |-> <<>>, history |-> <<>>, max_new_tokens |-> 0,
     temperature |-> 0, top_p |-> 0, inputs |-> <<>>, output_ids |-> <<>>,
     result |-> <<>>, error |-> "none", generateCalls |-> 0,
     afterFailure |-> FALSE]

Init ==
    /\ pc = "load_tokenizer"
    /\ tokenizer = NoTokenizer
    /\ model = NoModel
    /\ loadCalls = [tokenizer |-> 0, model |-> 0]
    /\ loadFailed = "none"
    /\ call = [c \in Calls |-> IdleCall]
    /\ delivered = [c \in Calls |-> <<>>]
    /\ everFailed = FALSE

\* tokenizer = AutoTokenizer.from_pretrained(...)
LoadTokenizer ==
    /\ pc = "load_tokenizer"
    /\ loadCalls' = [loadCalls EXCEPT !.tokenizer = @ + 1]
    /\ \/ /\ tokenizer' = [loaded |-> TRUE, use_fast |-> TRUE]
          /\ pc' = NextPc(pc)
          /\ UNCHANGED loadFailed
       \/ /\ \E f \in LoadFailures : loadFailed' = f
          /\ pc' = OnLoadFailure(pc)
          /\ UNCHANGED tokenizer
    /\ UNCHANGED <<model, call, delivered, everFailed>>

\* model = AutoModelForCausalLM.from_pretrained(...)
LoadModel ==
    /\ pc = "load_model"
    /\ loadCalls' = [loadCalls EXCEPT !.model = @ + 1]
    /\ \/ /\ model' = [model EXCEPT !.loaded = TRUE]
          /\ pc' = NextPc(pc)
          /\ UNCHANGED loadFailed
       \/ /\ \E f \in LoadFailures : loadFailed' = f
          /\ pc' = OnLoadFailure(pc)
          /\ UNCHANGED model
    /\ UNCHANGED <<tokenizer, call, delivered, everFailed>>

\* model.eval()
ModelEval ==
    /\ pc = "eval"
    /\ model' = [model EXCEPT !.training = FALSE]
    /\ pc' = NextPc(pc)
    /\ UNCHANGED <<tokenizer, loadCalls, loadFailed, call, delivered, everFailed>>

\* with gr.Blocks(...): gr.ChatInterface(fn=generate, ...)
BuildBlocks ==
    /\ pc = "blocks"
    /\ pc' = NextPc(pc)
    /\ UNCHANGED <<tokenizer, model, loadCalls, loadFailed, call, delivered, everFailed>>

\* demo.queue()
Queue ==
    /\ pc = "queue"
    /\ pc' = NextPc(pc)
    /\ UNCHANGED <<tokenizer, model, loadCalls, loadFailed, call, delivered, everFailed>>

\* demo.launch(...): from here on the chat UI serves generate
Launch ==
    /\ pc = "launch"
    /\ pc' = NextPc(pc)
    /\ UNCHANGED <<tokenizer, model, loadCalls, loadFailed, call, delivered, everFailed>>

---------------------------------------------------------------------------
(* generate *)

Running == {"called", "encoded", "generating", "decoding"}

\* entry of generate: the arguments are bound in a fresh frame
Call(c, prompt, history, max_new_tokens, temperature, top_p) ==
    /\ pc = "serving"
    /\ call[c].phase \notin Running
    /\ call' = [call EXCEPT ![c] =
                  [IdleCall EXCEPT !.phase = "called", !.prompt = prompt,
                                   !.history = history,
                                   !.max_new_tokens = max_new_tokens,
                                   !.temperature = temperature, !.top_p = top_p,
                                   !.afterFailure = everFailed]]
    /\ delivered' = [delivered EXCEPT ![c] = <<>>]
    /\ UNCHANGED <<pc, tokenizer, model, loadCalls, loadFailed, everFailed>>

\* the chat UI calls fn(message, history): the sampling arguments keep
\* their defaults
Submit(c) ==
    \E prompt \in Prompts, history \in Histories :
        Call(c, prompt, history, DefaultMaxNewTokens, DefaultTemperature, DefaultTopP)

\* the failed call run again instead of reported
RaiseRetry(c, error, generateCalls) ==
    /\ call' = [call EXCEPT ![c].phase = "encoded", ![c].generateCalls = generateCalls]
    /\ everFailed' = TRUE
    /\ UNCHANGED <<pc, tokenizer, model, loadCalls, loadFailed, delivered>>

\* an exception leaves generate: nothing catches it in lines 37-48, the
\* caller gets the error and the frame's locals are gone
Raise(c, error, generateCalls) ==
    /\ call' = [call EXCEPT ![c] =
                  [IdleCall EXCEPT !.phase = "failed", !.error = error,
                                   !.generateCalls = generateCalls,
                                   !.prompt = call[c].prompt,
                                   !.history = call[c].history,
                                   !.max_new_tokens = call[c].max_new_tokens,
                                   !.temperature = call[c].temperature,
                                   !.top_p = call[c].top_p]]
    /\ delivered' = [delivered EXCEPT ![c] = Append(@, [kind |-> "error", text |-> <<>>])]
    /\ everFailed' = TRUE
    /\ UNCHANGED <<pc, tokenizer, model, loadCalls, loadFailed>>

\* inputs = tokenizer(prompt, return_tensors="pt").to(model.device)
Tokenize(c) ==
    /\ call[c].phase = "called"
    /\ call' = [call EXCEPT ![c].phase = "encoded",
                            ![c].inputs = GenInputs(call[c].prompt, call[c].history)]
    /\ UNCHANGED <<pc, tokenizer, model, loadCalls, loadFailed, delivered, everFailed>>

\* the call's sampling arguments written into the shared model's configuration
GenerateBeginWritesConfig(c) ==
    /\ call[c].phase = "encoded"
    /\ call[c].max_new_tokens > 0
    /\ call' = [call EXCEPT ![c].phase = "generating", ![c].generateCalls = @ + 1,
                            ![c].output_ids = call[c].inputs]
    /\ model' = [model EXCEPT !.generation_config =
                    [temperature |-> call[c].temperature, top_p |-> call[c].top_p]]
    /\ UNCHANGED <<pc, tokenizer, loadCalls, loadFailed, delivered, everFailed>>

\* max_new_tokens not validated: the loop samples, then tests the length
GenerateBeginUnchecked(c) ==
    /\ call[c].phase = "encoded"
    /\ call' = [call EXCEPT ![c].phase = "generating", ![c].generateCalls = @ + 1,
                            ![c].output_ids = call[c].inputs]
    /\ UNCHANGED <<pc, tokenizer, model, loadCalls, loadFailed, delivered, everFailed>>

\* model.generate(**inputs, max_new_tokens=..., ...): the generation
\* arguments are validated (max_new_tokens must be greater than 0), then
\* the output starts as the input ids
GenerateBegin(c) ==
    /\ call[c].phase = "encoded"
    /\ IF call[c].max_new_tokens <= 0
       THEN Raise(c, "ValueError", call[c].generateCalls + 1)
       ELSE /\ call' = [call EXCEPT ![c].phase = "generating",
                                    ![c].generateCalls = @ + 1,
                                    ![c].output_ids = call[c].inputs]
            /\ UNCHANGED <<pc, tokenizer, model, loadCalls, loadFailed, delivered,
                           everFailed>>

\* each sampled token streamed to the caller as it is produced
SampleStepStreaming(c) ==
    /\ call[c].phase = "generating"
    /\ \E tok \in Nucleus(call[c].output_ids, call[c].temperature, call[c].top_p) :
          LET ids == Append(call[c].output_ids, tok)
          IN  /\ call' = [call EXCEPT
                    ![c].output_ids = ids,
                    ![c].phase =
                        IF StoppingCriteria(call[c].inputs, ids, call[c].max_new_tokens)
                        THEN "decoding" ELSE "generating"]
              /\ delivered' = [delivered EXCEPT ![c] =
                                 Append(@, [kind |-> "text", text |-> Decode(ids)])]
    /\ UNCHANGED <<pc, tokenizer, model, loadCalls, loadFailed, everFailed>>

\* one step of the sampling loop (do_sample=True): a token of the nucleus
\* is appended, then the stopping criteria are evaluated
SampleStep(c) ==
    /\ call[c].phase = "generating"
    /\ \E tok \in Nucleus(call[c].output_ids, call[c].temperature, call[c].top_p) :
          LET ids == Append(call[c].output_ids, tok)
          IN  call' = [call EXCEPT
                  ![c].output_ids = ids,
                  ![c].phase =
                      IF StoppingCriteria(call[c].inputs, ids, call[c].max_new_tokens)
                      THEN "decoding" ELSE "generating"]
    /\ UNCHANGED <<pc, tokenizer, model, loadCalls, loadFailed, delivered, everFailed>>

\* only the tokens after the prompt decoded
ReturnCompletionOnly(c) ==
    /\ call[c].phase = "decoding"
    /\ LET text == Decode(SubSeq(call[c].output_ids, Len(call[c].inputs) + 1,
                                 Len(call[c].output_ids)))
       IN  /\ call' = [call EXCEPT ![c].phase = "done", ![c].result = text]
           /\ delivered' = [delivered EXCEPT ![c] =
                              Append(@, [kind |-> "text", text |-> text])]
    /\ UNCHANGED <<pc, tokenizer, model, loadCalls, loadFailed, everFailed>>

\* return tokenizer.decode(output_ids[0], skip_special_tokens=True)
Return(c) ==
    /\ call[c].phase = "decoding"
    /\ LET text == Decode(call[c].output_ids)
       IN  /\ call' = [call EXCEPT ![c].phase = "done", ![c].result = text]
           /\ delivered' = [delivered EXCEPT ![c] =
                              Append(@, [kind |-> "text", text |-> text])]
    /\ UNCHANGED <<pc, tokenizer, model, loadCalls, loadFailed, everFailed>>

\* out-of-memory or computation failure at any point of a running call
Fail(c) ==
    /\ call[c].phase \in Running
    /\ Raise(c, "RuntimeError", call[c].generateCalls)

---------------------------------------------------------------------------
(* The served program *)

Next ==
    \/ LoadTokenizer
    \/ LoadModel
    \/ ModelEval
    \/ BuildBlocks
    \/ Queue
    \/ Launch
    \/ \E c \in Calls : Submit(c)
    \/ \E c \in Calls : Tokenize(c)
    \/ \E c \in Calls : GenerateBegin(c)
    \/ \E c \in Calls : SampleStep(c)
    \/ \E c \in Calls : Return(c)
    \/ \E c \in Calls : Fail(c)

Spec == Init /\ [][Next]_vars

---------------------------------------------------------------------------
(* generate called directly, with arguments drawn from bounded sets, once  *)
(* the loader has succeeded                                                *)

InitGen ==
    /\ pc = "serving"
    /\ tokenizer = [loaded |-> TRUE, use_fast |-> TRUE]
    /\ model = [NoModel EXCEPT !.loaded = TRUE, !.training = FALSE]
    /\ loadCalls = [tokenizer |-> 1, model |-> 1]
    /\ loadFailed = "none"
    /\ call = [c \in Calls |-> IdleCall]
    /\ delivered = [c \in Calls |-> <<>>]
    /\ everFailed = FALSE

DirectCall ==
    \E prompt \in Prompts, history \in Histories, max_new_tokens \in MaxNewTokensArgs,
       temperature \in Temperatures, top_p \in TopPs :
        Call(1, prompt, history, max_new_tokens, temperature, top_p)

NextGen ==
    \/ DirectCall
    \/ Tokenize(1)
    \/ GenerateBegin(1)
    \/ SampleStep(1)
    \/ Return(1)
    \/ Fail(1)

SpecGen == InitGen /\ [][NextGen]_vars

\* a running call keeps computing: generate blocks until it returns or raises
FairSpecGen ==
    /\ InitGen
    /\ [][NextGen]_vars
    /\ WF_vars(Tokenize(1))
    /\ WF_vars(GenerateBegin(1))
    /\ WF_vars(SampleStep(1))
    /\ WF_vars(Return(1))

---------------------------------------------------------------------------
(* Properties *)

Started(c) == call[c].phase # "idle"

\* the tokens the sampling loop has appended to the input ids
NewTokens(c) ==
    SubSeq(call[c].output_ids, Len(call[c].inputs) + 1, Len(call[c].output_ids))

HasOutput(c) == call[c].phase \in {"generating", "decoding", "done"}

ErrorOnly == << [kind |-> "error", text |-> <<>>] >>

\* C1: each handle is initialized exactly once, and both are initialized
\* before the service is ready; no generate call runs with a handle
\* uninitialized.
C1_InitializedOnceBeforeServing ==
    /\ loadCalls.tokenizer <= 1
    /\ loadCalls.model <= 1
    /\ (pc = "serving" \/ \E c \in Calls : Started(c)) =>
          /\ loadCalls.tokenizer = 1
          /\ loadCalls.model = 1
          /\ tokenizer.loaded
          /\ model.loaded
          /\ ~model.training

C1_Witness ==
    /\ pc = "serving"
    /\ \E c \in Calls : call[c].phase = "done"

\* C2: once a loader has failed the process is over: it is never serving,
\* no generate call is ever started, and no loader is invoked again.
C2_LoadFailureIsFatal ==
    loadFailed # "none" =>
        /\ pc = "crashed"
        /\ \A c \in Calls : ~Started(c) /\ delivered[c] = <<>>
        /\ loadCalls.tokenizer <= 1
        /\ loadCalls.model <= 1

C2_Witness ==
    /\ loadFailed = "out_of_memory"
    /\ loadCalls.model = 1
    /\ tokenizer.loaded

\* C3: a failed generate call reports the failure to its caller and
\* nothing else: the process keeps serving and model.generate is invoked at
\* most once per call.
C3_CallFailureIsLocal ==
    /\ everFailed => pc = "serving"
    /\ \A c \in Calls :
          /\ call[c].generateCalls <= 1
          /\ call[c].phase = "failed" => delivered[c] = ErrorOnly

\* one call has failed; another, made after a failure, has been served
C3_Witness ==
    \E c1, c2 \in Calls :
        /\ call[c1].phase = "failed"
        /\ call[c2].phase = "done"
        /\ call[c2].afterFailure

\* C4: while the service is serving no step changes the model handle or the
\* tokenizer handle, whatever the interleaving of the calls.
C4_HandlesReadOnly ==
    [][pc = "serving" => (model' = model /\ tokenizer' = tokenizer)]_vars

\* two calls are inside the sampling loop together
C4_Witness ==
    /\ pc = "serving"
    /\ \A c \in Calls : call[c].phase = "generating" /\ NewTokens(c) # <<>>

RECURSIVE Completions(_, _, _, _)
\* every token sequence the sampling loop can end with, from ids, with n
\* tokens still allowed
Completions(ids, n, temperature, top_p) ==
    IF n = 0 THEN {ids}
    ELSE UNION {IF tok = eos_token_id THEN {Append(ids, tok)}
                ELSE Completions(Append(ids, tok), n - 1, temperature, top_p) :
                tok \in Nucleus(ids, temperature, top_p)}

SameRequest(c1, c2) ==
    /\ call[c1].prompt = call[c2].prompt
    /\ call[c1].max_new_tokens = call[c2].max_new_tokens
    /\ call[c1].temperature = call[c2].temperature
    /\ call[c1].top_p = call[c2].top_p

Encoded(c) == call[c].phase \in {"encoded", "generating", "decoding", "done"}

\* C5: the token sequence given to the model is the encoded prompt, the
\* same for two calls that differ only in history, and a returned text is
\* one of the texts the prompt and the sampling arguments alone allow.
C5_HistoryIgnored ==
    /\ \A c1, c2 \in Calls :
          (Encoded(c1) /\ Encoded(c2) /\ SameRequest(c1, c2)) =>
              call[c1].inputs = call[c2].inputs
    /\ \A c \in Calls :
          /\ Encoded(c) => call[c].inputs = Encode(call[c].prompt)
          /\ call[c].phase = "done" =>
                call[c].result \in
                    {Decode(ids) : ids \in Completions(Encode(call[c].prompt),
                                        call[c].max_new_tokens, call[c].temperature,
                                        call[c].top_p)}

C5_Witness ==
    \E c1, c2 \in Calls :
        /\ SameRequest(c1, c2)
        /\ call[c1].history # call[c2].history
        /\ call[c1].phase = "done"
        /\ call[c2].phase = "done"
        /\ call[c1].prompt # <<>>

HasSpecialText(text) == \E i \in 1..Len(text) : TokenId(text[i]) \in SpecialTokens

IsPrefix(a, b) == Len(a) <= Len(b) /\ SubSeq(b, 1, Len(a)) = a

\* C6 as stated: for every prompt the returned text is the prompt followed
\* by the decoded continuation, and is the continuation alone for no prompt
\* that has text.
C6_ReturnsPromptThenCompletion ==
    call[1].phase = "done" =>
        /\ call[1].result = call[1].prompt \o Decode(NewTokens(1))
        /\ call[1].prompt # <<>> => call[1].result # Decode(NewTokens(1))

\* C6: the decoded token sequence starts with the encoded prompt tokens;
\* the returned text is the decoded prompt (the prompt without its
\* special-token text) followed by the decoded continuation, which is the
\* prompt followed by the continuation when the prompt has no special-token
\* text.
C6_ReturnsDecodedPromptThenCompletion ==
    call[1].phase = "done" =>
        /\ call[1].inputs = Encode(call[1].prompt)
        /\ IsPrefix(call[1].inputs, call[1].output_ids)
        /\ call[1].result = Decode(call[1].inputs) \o Decode(NewTokens(1))
        /\ ~HasSpecialText(call[1].prompt) =>
              call[1].result = call[1].prompt \o Decode(NewTokens(1))
        /\ delivered[1] = << [kind |-> "text", text |-> call[1].result] >>

C6_Witness ==
    /\ call[1].phase = "done"
    /\ call[1].prompt = <<"a", "a">>
    /\ call[1].result = <<"a", "a", "b", "a">>

\* C7 as stated: a call with max_new_tokens = 0 that no resource failure
\* interrupts returns the decoded prompt alone.
C7_ZeroReturnsDecodedPrompt ==
    (call[1].max_new_tokens = 0 /\ call[1].phase \in {"done", "failed"}
        /\ call[1].error # "RuntimeError") =>
        /\ call[1].phase = "done"
        /\ call[1].result = Decode(Encode(call[1].prompt))

\* C7: a call with max_new_tokens = 0 never enters the sampling loop and
\* returns no text: no token is appended to the encoded prompt, and the
\* call ends with an error by the validation of the generation arguments
\* unless a resource failure ended it before.
C7_ZeroIsRejected ==
    (Started(1) /\ call[1].max_new_tokens = 0) =>
        /\ call[1].phase \in {"called", "encoded", "failed"}
        /\ call[1].output_ids = <<>>
        /\ call[1].phase = "failed" =>
              /\ delivered[1] = ErrorOnly
              /\ call[1].generateCalls = 1 => call[1].error = "ValueError"
        /\ call[1].phase # "failed" => delivered[1] = <<>>

C7_Witness ==
    /\ call[1].phase = "failed"
    /\ call[1].max_new_tokens = 0
    /\ call[1].error = "ValueError"
    /\ call[1].prompt # <<>>

\* C8: at every step of the sampling loop and at its end, the output has
\* at most as many tokens as the encoded prompt plus max_new_tokens.
C8_LengthBound ==
    HasOutput(1) =>
        Len(call[1].output_ids) <= Len(call[1].inputs) + call[1].max_new_tokens

\* the bound is met: the loop ended by the length, not by end-of-sequence
C8_Witness ==
    /\ call[1].phase = "done"
    /\ call[1].max_new_tokens = MaxNewTokens
    /\ Len(NewTokens(1)) = MaxNewTokens
    /\ NewTokens(1)[MaxNewTokens] # eos_token_id

\* C9: the caller has received nothing while the call is running; a call
\* that returned has delivered its one result, the decoded full output; a
\* call that failed has delivered the error and no text.
C9_NoStreaming ==
    /\ call[1].phase \in Running => delivered[1] = <<>>
    /\ call[1].phase = "done" =>
          delivered[1] = << [kind |-> "text", text |-> Decode(call[1].output_ids)] >>
    /\ call[1].phase = "failed" => delivered[1] = ErrorOnly

\* tokens have been sampled and nothing has been delivered yet
C9_Witness ==
    /\ call[1].phase = "generating"
    /\ NewTokens(1) # <<>>
    /\ delivered[1] = <<>>

C10_LoopShape ==
    HasOutput(1) =>
        LET new == NewTokens(1)
            n == Len(new)
        IN  /\ n <= call[1].max_new_tokens
            /\ \A i \in 1..(n - 1) : new[i] # eos_token_id
            /\ call[1].phase = "generating" =>
                  /\ n < call[1].max_new_tokens
                  /\ \A i \in 1..n : new[i] # eos_token_id
            /\ call[1].phase \in {"decoding", "done"} =>
                  /\ n >= 1
                  /\ new[n] = eos_token_id \/ n = call[1].max_new_tokens

\* C10: no token is sampled after an end-of-sequence token, the loop has
\* ended exactly when the last token is end-of-sequence or max_new_tokens
\* tokens were sampled, and every running call ends (returns or fails).
C10_Terminates ==
    /\ []C10_LoopShape
    /\ (call[1].phase \in Running) ~> (call[1].phase \in {"done", "failed"})

\* the loop ended early, on an end-of-sequence token
C10_Witness ==
    /\ call[1].phase = "done"
    /\ Len(NewTokens(1)) < call[1].max_new_tokens
    /\ NewTokens(1)[Len(NewTokens(1))] = eos_token_id

=============================================================================
